---- MODULE Spec2Model ----
(***************************************************************************)
(* rss-combine: merge the entries of additional RSS files into a main RSS  *)
(* file, deduplicating by GUID and optionally capping the entry count.     *)
(* The model follows run_app() and main() of src/src/main.rs statement by  *)
(* statement; one action per step of run_app.                              *)
(***************************************************************************)
EXTENDS Integers, Sequences, FiniteSets, TLC

(***************************************************************************)
(* Bounds of the model.                                                    *)
(***************************************************************************)
\* entries of all feeds of one run together (main file plus additional files)
MaxTotal == 4
\* number of additional files on the command line (at least one is required)
MaxFiles == 2
\* number of distinct GUID values
NumGuids == 3
\* largest value given to -l
MaxLimit == 2

(***************************************************************************)
(* Values.                                                                 *)
(***************************************************************************)
\* item.guid() == None
NoGuid == 0
\* exit status of a Rust process whose main thread panicked (expect/unwrap)
PanicExit == 101
\* exitCode before the process has exited
Running == -1

Guids == 1..NumGuids
Status == {"ok", "noopen", "noparse"}

\* A file on disk: whether it opens and parses, and the GUIDs of its items
\* in document order.  meta stands for the channel fields (title, link, ...).
Feed(m, st, gs) == [meta |-> m, status |-> st, guids |-> gs]

\* One RSS item; src and pos say where it was read from.
Entry(m, p, g) == [src |-> m, pos |-> p, guid |-> g]

\* Channel::read_from on a file that parses: the channel fields and the items.
ChannelOf(f) ==
  [meta |-> f.meta,
   items |-> [p \in 1..Len(f.guids) |-> Entry(f.meta, p, f.guids[p])]]

\* the Channel before any file was read
NoChannel == [meta |-> -1, items |-> <<>>]

\* contents of a file of the output directory
OldFile == [state |-> "old", doc |-> NoChannel]
NoFile == [state |-> "none", doc |-> NoChannel]
EmptyFile == [state |-> "empty", doc |-> NoChannel]
PartialFile == [state |-> "partial", doc |-> NoChannel]
FullFile(ch) == [state |-> "new", doc |-> ch]

VARIABLES
  opt_input,         \* opt.input: the main RSS file
  opt_files,         \* opt.files: the additional files, in order
  opt_max_entries,   \* opt.max_entries
  pc,                \* position in run_app
  fileIdx,           \* files of opt.files already taken by the for loop
  channel,           \* channel
  known_guids,       \* known_guids
  nr_missing_guids,  \* nr_missing_guids
  items_orig,        \* items_orig
  items_extra,       \* items_extra
  vec_items,         \* vec_items
  i,                 \* i
  visited,           \* the entries vec_items[i] the while loop has looked at
  warnings,          \* WARNING lines for skipped files written to stderr
  temp,              \* the Sponge's temporary file
  dest,              \* the file at the destination path
  fatal,             \* the expect/unwrap that panicked, or "none"
  exitCode           \* exit status of the process

vars == <<opt_input, opt_files, opt_max_entries, pc, fileIdx, channel,
          known_guids, nr_missing_guids, items_orig, items_extra, vec_items,
          i, visited, warnings, temp, dest, fatal, exitCode>>

opts == <<opt_input, opt_files, opt_max_entries>>
scan == <<vec_items, i, visited>>
disk == <<temp, dest>>

(***************************************************************************)
(* Helpers.                                                                *)
(***************************************************************************)
RECURSIVE SumTo(_, _)
SumTo(ln, k) == IF k < 0 THEN 0 ELSE ln[k] + SumTo(ln, k - 1)

\* GUID values are only compared for equality, so one labelling per
\* equality pattern is enumerated: a GUID value first occurs after all
\* smaller ones.
Canonical(g) ==
  \A p \in 1..Len(g) :
    g[p] > 1 => \E q \in 1..(p - 1) : g[q] = g[p] - 1

\* the for loop over items_orig, lines 56-63: the GUIDs inserted
RECURSIVE InsertGuids(_, _)
InsertGuids(items, known) ==
  IF items = <<>> THEN known
  ELSE InsertGuids(Tail(items),
                   IF Head(items).guid # NoGuid
                     THEN known \cup {Head(items).guid}
                     ELSE known)

\* the for loop over items_orig, lines 56-63: the items counted as missing
RECURSIVE CountMissing(_)
CountMissing(items) ==
  IF items = <<>> THEN 0
  ELSE (IF Head(items).guid = NoGuid THEN 1 ELSE 0) + CountMissing(Tail(items))

\* Vec::remove(i), i counted from 0
Remove(s, n) == SubSeq(s, 1, n) \o SubSeq(s, n + 2, Len(s))

\* Truncate without the test for max_entries > 0
TruncateAlways(s, max) ==
  IF Len(s) > max THEN SubSeq(s, 1, max) ELSE s

\* lines 135-140: Vec::truncate under the max_entries condition
Truncate(s, max) ==
  IF max > 0 /\ Len(s) > max THEN SubSeq(s, 1, max) ELSE s

(***************************************************************************)
(* Initial states: the command line and the files it names.                *)
(***************************************************************************)
Init ==
  /\ \E k \in 1..MaxFiles :
     \E st \in [0..k -> Status] :
     \E ln \in [0..k -> 0..MaxTotal] :
       /\ \A f \in 0..k : st[f] # "ok" => ln[f] = 0
       \* a main file that cannot be read ends the run before any other
       \* file is looked at: one command line stands for all of them
       /\ st[0] # "ok" => k = 1 /\ st[1] = "ok" /\ ln[1] = 0
       /\ SumTo(ln, k) <= MaxTotal
       /\ \E g \in [1..SumTo(ln, k) -> 0..NumGuids] :
            /\ Canonical(g)
            /\ opt_input = Feed(0, st[0], SubSeq(g, 1, ln[0]))
            /\ opt_files =
                 [f \in 1..k |->
                    Feed(f, st[f],
                         SubSeq(g, SumTo(ln, f - 1) + 1, SumTo(ln, f)))]
  /\ opt_max_entries \in 0..MaxLimit
  /\ pc = "start"
  /\ fileIdx = 0
  /\ channel = NoChannel
  /\ known_guids = {}
  /\ nr_missing_guids = 0
  /\ items_orig = <<>>
  /\ items_extra = <<>>
  /\ vec_items = <<>>
  /\ i = 0
  /\ visited = <<>>
  /\ warnings = 0
  /\ temp = NoFile
  /\ dest = OldFile
  /\ fatal = "none"
  /\ exitCode = Running

(***************************************************************************)
(* Actions.                                                                *)
(***************************************************************************)
\* expect()/unwrap() on an Err: the thread panics and the process exits
Panic(what) ==
  /\ pc' = "done"
  /\ fatal' = what
  /\ exitCode' = PanicExit

\* lines 41-42 failing
ReadMainFail ==
  /\ pc = "start"
  /\ opt_input.status # "ok"
  /\ Panic(IF opt_input.status = "noopen" THEN "open" ELSE "parse")
  /\ UNCHANGED <<opts, fileIdx, channel, known_guids, nr_missing_guids,
                 items_orig, items_extra, scan, warnings, disk>>

\* lines 41-63
ReadMain ==
  /\ pc = "start"
  /\ opt_input.status = "ok"
  /\ channel' = ChannelOf(opt_input)
  /\ items_orig' = channel'.items
  /\ known_guids' = InsertGuids(items_orig', known_guids)
  /\ nr_missing_guids' = nr_missing_guids + CountMissing(items_orig')
  /\ pc' = "files"
  /\ UNCHANGED <<opts, fileIdx, items_extra, scan, warnings, disk, fatal,
                 exitCode>>

\* SkipFile leaving the for loop (break) instead of going on (continue)
SkipFileBreak ==
  /\ pc = "files"
  /\ fileIdx < Len(opt_files)
  /\ opt_files[fileIdx + 1].status # "ok"
  /\ fileIdx' = Len(opt_files)
  /\ warnings' = warnings + 1
  /\ UNCHANGED <<opts, pc, channel, known_guids, nr_missing_guids,
                 items_orig, items_extra, scan, disk, fatal, exitCode>>

\* lines 69-75 and 78-84: the file does not open, or does not parse
SkipFile ==
  /\ pc = "files"
  /\ fileIdx < Len(opt_files)
  /\ opt_files[fileIdx + 1].status # "ok"
  /\ fileIdx' = fileIdx + 1
  /\ warnings' = warnings + 1
  /\ UNCHANGED <<opts, pc, channel, known_guids, nr_missing_guids,
                 items_orig, items_extra, scan, disk, fatal, exitCode>>

\* LoadFile reading into a variable of its own (the addchannel of the
\* commented-out lines 86-91) and leaving channel as it is
LoadFileKeepChannel ==
  /\ pc = "files"
  /\ fileIdx < Len(opt_files)
  /\ opt_files[fileIdx + 1].status = "ok"
  /\ fileIdx' = fileIdx + 1
  /\ vec_items' = ChannelOf(opt_files[fileIdx + 1]).items
  /\ i' = 0
  /\ visited' = <<>>
  /\ pc' = "scan"
  /\ UNCHANGED <<opts, channel, known_guids, nr_missing_guids, items_orig,
                 items_extra, warnings, disk, fatal, exitCode>>

\* lines 65-95: the file opens and parses
LoadFile ==
  /\ pc = "files"
  /\ fileIdx < Len(opt_files)
  /\ opt_files[fileIdx + 1].status = "ok"
  /\ fileIdx' = fileIdx + 1
  /\ channel' = ChannelOf(opt_files[fileIdx + 1])
  /\ vec_items' = channel'.items
  /\ i' = 0
  /\ visited' = <<>>
  /\ pc' = "scan"
  /\ UNCHANGED <<opts, known_guids, nr_missing_guids, items_orig,
                 items_extra, warnings, disk, fatal, exitCode>>

\* ScanMissing merging the item instead of leaving it out
ScanMissingKept ==
  /\ pc = "scan"
  /\ i # Len(vec_items)
  /\ vec_items[i + 1].guid = NoGuid
  /\ nr_missing_guids' = nr_missing_guids + 1
  /\ items_extra' = Append(items_extra, vec_items[i + 1])
  /\ vec_items' = Remove(vec_items, i)
  /\ visited' = Append(visited, vec_items[i + 1])
  /\ UNCHANGED <<opts, pc, fileIdx, channel, known_guids, items_orig, i,
                 warnings, disk, fatal, exitCode>>

\* lines 96-104: the item has no GUID
ScanMissing ==
  /\ pc = "scan"
  /\ i # Len(vec_items)
  /\ vec_items[i + 1].guid = NoGuid
  /\ nr_missing_guids' = nr_missing_guids + 1
  /\ i' = i + 1
  /\ visited' = Append(visited, vec_items[i + 1])
  /\ UNCHANGED <<opts, pc, fileIdx, channel, known_guids, items_orig,
                 items_extra, vec_items, warnings, disk, fatal, exitCode>>

\* lines 96-109: the GUID is known
ScanKnown ==
  /\ pc = "scan"
  /\ i # Len(vec_items)
  /\ vec_items[i + 1].guid # NoGuid
  /\ vec_items[i + 1].guid \in known_guids
  /\ i' = i + 1
  /\ visited' = Append(visited, vec_items[i + 1])
  /\ UNCHANGED <<opts, pc, fileIdx, channel, known_guids, nr_missing_guids,
                 items_orig, items_extra, vec_items, warnings, disk, fatal,
                 exitCode>>

\* ScanNew stepping i after the remove, which skips the item that moved up
ScanNewAdvance ==
  /\ pc = "scan"
  /\ i # Len(vec_items)
  /\ vec_items[i + 1].guid # NoGuid
  /\ vec_items[i + 1].guid \notin known_guids
  /\ known_guids' = known_guids \cup {vec_items[i + 1].guid}
  /\ items_extra' = Append(items_extra, vec_items[i + 1])
  /\ vec_items' = Remove(vec_items, i)
  /\ i' = IF i + 1 <= Len(vec_items') THEN i + 1 ELSE i
  /\ visited' = Append(visited, vec_items[i + 1])
  /\ UNCHANGED <<opts, pc, fileIdx, channel, nr_missing_guids, items_orig,
                 warnings, disk, fatal, exitCode>>

\* lines 96-112: the GUID is new
ScanNew ==
  /\ pc = "scan"
  /\ i # Len(vec_items)
  /\ vec_items[i + 1].guid # NoGuid
  /\ vec_items[i + 1].guid \notin known_guids
  /\ known_guids' = known_guids \cup {vec_items[i + 1].guid}
  /\ items_extra' = Append(items_extra, vec_items[i + 1])
  /\ vec_items' = Remove(vec_items, i)
  /\ visited' = Append(visited, vec_items[i + 1])
  /\ UNCHANGED <<opts, pc, fileIdx, channel, nr_missing_guids, items_orig,
                 i, warnings, disk, fatal, exitCode>>

\* line 96 false: the while loop ends, line 114
ScanEnd ==
  /\ pc = "scan"
  /\ i = Len(vec_items)
  /\ pc' = "files"
  /\ vec_items' = <<>>
  /\ i' = 0
  /\ UNCHANGED <<opts, fileIdx, channel, known_guids, nr_missing_guids,
                 items_orig, items_extra, visited, warnings, disk, fatal,
                 exitCode>>

\* NoChanges going on to rewrite the output all the same
NoChangesRewrite ==
  /\ pc = "files"
  /\ fileIdx = Len(opt_files)
  /\ Len(items_extra) = 0
  /\ channel' = [channel EXCEPT
                   !.items = Truncate(items_extra \o items_orig,
                                      opt_max_entries)]
  /\ items_orig' = <<>>
  /\ pc' = "stage"
  /\ UNCHANGED <<opts, fileIdx, known_guids, nr_missing_guids, items_extra,
                 scan, warnings, disk, fatal, exitCode>>

\* lines 116-129, then main: no additional entries
NoChanges ==
  /\ pc = "files"
  /\ fileIdx = Len(opt_files)
  /\ Len(items_extra) = 0
  /\ pc' = "done"
  /\ exitCode' = 0
  /\ UNCHANGED <<opts, fileIdx, channel, known_guids, nr_missing_guids,
                 items_orig, items_extra, scan, warnings, disk, fatal>>

\* Combine with the original entries put in front of the new ones
CombineOrigFirst ==
  /\ pc = "files"
  /\ fileIdx = Len(opt_files)
  /\ Len(items_extra) # 0
  /\ channel' = [channel EXCEPT
                   !.items = Truncate(items_orig \o items_extra,
                                      opt_max_entries)]
  /\ items_orig' = <<>>
  /\ items_extra' = <<>>
  /\ pc' = "stage"
  /\ UNCHANGED <<opts, fileIdx, known_guids, nr_missing_guids, scan,
                 warnings, disk, fatal, exitCode>>

\* lines 116-143
Combine ==
  /\ pc = "files"
  /\ fileIdx = Len(opt_files)
  /\ Len(items_extra) # 0
  /\ channel' = [channel EXCEPT
                   !.items = Truncate(items_extra \o items_orig,
                                      opt_max_entries)]
  /\ items_orig' = <<>>
  /\ items_extra' = <<>>
  /\ pc' = "stage"
  /\ UNCHANGED <<opts, fileIdx, known_guids, nr_missing_guids, scan,
                 warnings, disk, fatal, exitCode>>

\* line 146
Stage ==
  /\ pc = "stage"
  /\ \/ /\ temp' = EmptyFile
        /\ pc' = "write"
        /\ UNCHANGED <<fatal, exitCode>>
     \/ /\ Panic("stage")
        /\ UNCHANGED temp
  /\ UNCHANGED <<opts, fileIdx, channel, known_guids, nr_missing_guids,
                 items_orig, items_extra, scan, warnings, dest>>

\* WriteOut writing to the destination path itself
WriteInPlace ==
  /\ pc = "write"
  /\ \/ /\ dest' = FullFile(channel)
        /\ pc' = "commit"
        /\ UNCHANGED <<fatal, exitCode>>
     \/ /\ dest' \in {EmptyFile, PartialFile}
        /\ Panic("write")
  /\ UNCHANGED <<opts, fileIdx, channel, known_guids, nr_missing_guids,
                 items_orig, items_extra, scan, warnings, temp>>

\* line 147
WriteOut ==
  /\ pc = "write"
  /\ \/ /\ temp' = FullFile(channel)
        /\ pc' = "commit"
        /\ UNCHANGED <<fatal, exitCode>>
     \/ /\ temp' \in {EmptyFile, PartialFile}
        /\ Panic("write")
  /\ UNCHANGED <<opts, fileIdx, channel, known_guids, nr_missing_guids,
                 items_orig, items_extra, scan, warnings, dest>>

\* lines 148-150, then main
Commit ==
  /\ pc = "commit"
  /\ \/ /\ dest' = temp
        /\ temp' = NoFile
        /\ pc' = "done"
        /\ exitCode' = 0
        /\ UNCHANGED fatal
     \/ /\ Panic("commit")
        /\ UNCHANGED <<temp, dest>>
  /\ UNCHANGED <<opts, fileIdx, channel, known_guids, nr_missing_guids,
                 items_orig, items_extra, scan, warnings>>

Next ==
  \/ ReadMainFail
  \/ ReadMain
  \/ SkipFile
  \/ LoadFile
  \/ ScanMissing
  \/ ScanKnown
  \/ ScanNew
  \/ ScanEnd
  \/ NoChanges
  \/ Combine
  \/ Stage
  \/ WriteOut
  \/ Commit

Spec == Init /\ [][Next]_vars

(***************************************************************************)
(* What the run is expected to produce, stated from the input files alone. *)
(***************************************************************************)
Range(s) == {s[p] : p \in 1..Len(s)}
GuidSeq(items) == [p \in 1..Len(items) |-> items[p].guid]
GuidSet(items) == {e.guid : e \in Range(items)} \ {NoGuid}

IsGood(f) == f.status = "ok"
GoodFiles == SelectSeq(opt_files, IsGood)
BadFiles == {f \in 1..Len(opt_files) : opt_files[f].status # "ok"}

PrimaryEntries == ChannelOf(opt_input).items

\* the items of the given files, file after file
RECURSIVE AllItems(_)
AllItems(files) ==
  IF files = <<>> THEN <<>>
  ELSE ChannelOf(Head(files)).items \o AllItems(Tail(files))

Before(a, b) == a.src < b.src \/ (a.src = b.src /\ a.pos < b.pos)

\* the items of the given files that carry a GUID no main item carries and
\* no earlier item of these files carries
NewEntries(files) ==
  LET all == AllItems(files)
      main == GuidSet(PrimaryEntries)
      IsNew(e) == /\ e.guid # NoGuid
                  /\ e.guid \notin main
                  /\ \A p \in 1..Len(all) :
                       Before(all[p], e) => all[p].guid # e.guid
  IN  SelectSeq(all, IsNew)

Cut(s, max) ==
  IF max = 0 \/ Len(s) <= max THEN s ELSE [p \in 1..max |-> s[p]]

\* meta of the last of the first n additional files that loaded
RECURSIVE LastLoaded(_)
LastLoaded(n) ==
  IF n = 0 THEN opt_input.meta
  ELSE IF opt_files[n].status = "ok" THEN opt_files[n].meta
  ELSE LastLoaded(n - 1)

\* run_app has handed a merged channel to the writer
Merged ==
  \/ pc \in {"stage", "write", "commit"}
  \/ pc = "done" /\ fatal \in {"stage", "write", "commit"}
  \/ dest.state = "new"

\* some additional file that loaded has an entry with an identifier that
\* no main entry carries
HasNewEntry ==
  \E f \in 1..Len(opt_files) :
    /\ opt_files[f].status = "ok"
    /\ \E p \in 1..Len(opt_files[f].guids) :
         /\ opt_files[f].guids[p] # NoGuid
         /\ \A q \in 1..Len(opt_input.guids) :
              opt_input.guids[q] # opt_files[f].guids[p]

Written == dest.state = "new"

(***************************************************************************)
(* C1: whenever an output feed is written, no two of its entries share the *)
(* same identifier value, also when the main feed itself repeats one.      *)
(***************************************************************************)
C1_NoDuplicateIds ==
  Written =>
    \A a, b \in 1..Len(dest.doc.items) :
      (a # b /\ dest.doc.items[a].guid # NoGuid)
        => dest.doc.items[a].guid # dest.doc.items[b].guid

(***************************************************************************)
(* C4: the process ends with exit code 1 when the main feed cannot be      *)
(* opened or parsed or the output cannot be staged or committed, and with  *)
(* exit code 0 in every other run.                                         *)
(***************************************************************************)
C4_ExitCode ==
  pc = "done" => exitCode = (IF fatal # "none" THEN 1 ELSE 0)

C3_MergedOrder ==
  (pc = "stage" \/ Written) =>
    LET new == NewEntries(GoodFiles)
        main == PrimaryEntries
        out == channel.items
        keptMain == {p \in 1..Len(main) : main[p] \in Range(out)}
    IN  /\ out = Cut(new \o main, opt_max_entries)
        /\ \A a, b \in 1..Len(new) : a < b => Before(new[a], new[b])
        /\ \A p \in keptMain : \A q \in 1..p : q \in keptMain
        /\ (\E e \in Range(new) : e \notin Range(out)) => keptMain = {}
        /\ ( /\ opt_input.guids = <<1, 2>>
             /\ Len(opt_files) = 1
             /\ opt_files[1].status = "ok"
             /\ opt_files[1].guids = <<2, 3>> )
           => /\ opt_max_entries = 0 => GuidSeq(out) = <<3, 1, 2>>
              /\ opt_max_entries = 2 => GuidSeq(out) = <<3, 1>>

\* the scenario written out under max_entries = 2
C3_Witness ==
  /\ Written
  /\ opt_input.guids = <<1, 2>>
  /\ Len(opt_files) = 1
  /\ opt_files[1].guids = <<2, 3>>
  /\ opt_max_entries = 2
  /\ GuidSeq(dest.doc.items) = <<3, 1>>

(***************************************************************************)
(* C9.  Feeds have disjoint identifiers when no identifier occurs in two   *)
(* of the feeds that loaded (the main feed and the additional ones).       *)
(***************************************************************************)
LoadedFeeds == <<opt_input>> \o GoodFiles

DisjointFeeds ==
  \A a, b \in 1..Len(LoadedFeeds) :
    a # b => GuidSet(ChannelOf(LoadedFeeds[a]).items)
               \cap GuidSet(ChannelOf(LoadedFeeds[b]).items) = {}

\* no additional feed carries the same identifier on two of its entries
NoRepeatInFeed ==
  \A f \in Range(GoodFiles) :
    \A p, q \in 1..Len(f.guids) :
      (p # q /\ f.guids[p] # NoGuid) => f.guids[p] # f.guids[q]

WithGuid(e) == e.guid # NoGuid
NrWithGuid == Len(SelectSeq(AllItems(GoodFiles), WithGuid))

\* the entry count union completeness asks for, of the feeds described by
\* disjoint: of the feed written, and of a run that ended without writing
\* (the merge is then the main feed as it is)
UnionCount(disjoint) ==
  /\ (Written /\ opt_max_entries = 0 /\ disjoint)
       => Len(dest.doc.items) = Len(PrimaryEntries) + NrWithGuid
  /\ (pc = "done" /\ fatal = "none" /\ ~Written /\ opt_max_entries = 0
        /\ disjoint)
       => NrWithGuid = 0

(***************************************************************************)
(* C9 as stated: with max_entries = 0 and feeds whose identifiers are      *)
(* disjoint, the merged feed has as many entries as the main feed plus the *)
(* entries with an identifier of the additional feeds that loaded.         *)
(***************************************************************************)
C9_UnionCount == UnionCount(DisjointFeeds)

(***************************************************************************)
(* C9 amended: the same, for feeds whose identifiers are disjoint and      *)
(* where no additional feed carries one identifier on two of its entries.  *)
(***************************************************************************)
C9_UnionCountNoRepeat == UnionCount(DisjointFeeds /\ NoRepeatInFeed)

\* two additional feeds that both contribute, one with an entry without
\* identifier, merged into a non-empty main feed
C9_Witness ==
  /\ Written
  /\ opt_max_entries = 0
  /\ DisjointFeeds /\ NoRepeatInFeed
  /\ Len(GoodFiles) = 2
  /\ \A f \in Range(GoodFiles) : \E p \in 1..Len(f.guids) : f.guids[p] # NoGuid
  /\ \E e \in Range(AllItems(GoodFiles)) : e.guid = NoGuid
  /\ Len(PrimaryEntries) > 0

(***************************************************************************)
(* C5.  The outcome a run on the given files is expected to have: whether  *)
(* a feed is written and which.                                            *)
(***************************************************************************)
Expected(files) ==
  LET new == NewEntries(files) IN
    [written |-> new # <<>>,
     doc |-> [meta |-> IF files = <<>> THEN opt_input.meta
                       ELSE files[Len(files)].meta,
              items |-> Cut(new \o PrimaryEntries, opt_max_entries)]]

(***************************************************************************)
(* C5: an additional file that does not open or does not parse changes     *)
(* nothing but a warning: with a good main feed, the exit status, whether  *)
(* an output is written and the written output (entries and metadata) are  *)
(* those of the list of additional files without the failing ones, and the *)
(* files after a failing one are still processed.                          *)
(***************************************************************************)
C5_SkippedFileNoEffect ==
  /\ (opt_input.status = "ok" /\ pc = "done") =>
       /\ fileIdx = Len(opt_files)
       /\ warnings = Cardinality(BadFiles)
       /\ fatal # "none" => exitCode = PanicExit /\ ~Written
  \* the run hands a feed to the writer exactly when one is expected
  /\ pc = "stage" =>
       LET exp == Expected(GoodFiles)
       IN  exp.written /\ channel = exp.doc
  /\ (opt_input.status = "ok" /\ pc = "done" /\ fatal = "none") =>
       LET exp == Expected(GoodFiles)
       IN  /\ exitCode = 0
           /\ Written <=> exp.written
           /\ Written => dest.doc = exp.doc

\* an output written from the file that follows a file that did not parse
C5_Witness ==
  /\ Written
  /\ Len(opt_files) = 2
  /\ opt_files[1].status = "noparse"
  /\ opt_files[2].status = "ok"
  /\ warnings = 1
  /\ \E e \in Range(dest.doc.items) : e.src = 2

(***************************************************************************)
(* C6: the destination path is never seen partially written: at every      *)
(* point of the run, also after a failure to stage or to commit, it holds  *)
(* its complete previous content or the complete merged feed, and it       *)
(* changes only in the commit step, to the fully staged content.           *)
(***************************************************************************)
C6_DestComplete ==
  \/ dest = OldFile
  \/ dest = FullFile(channel) /\ pc = "done" /\ fatal = "none"

C6_OnlyCommit ==
  dest' # dest => /\ pc = "commit"
                  /\ temp = FullFile(channel)
                  /\ dest' = temp

C6_AtomicOutput == []C6_DestComplete /\ [][C6_OnlyCommit]_vars

\* the write to the temporary file failed half way
C6_Witness ==
  /\ pc = "done"
  /\ fatal = "write"
  /\ temp = PartialFile
  /\ dest = OldFile

(***************************************************************************)
(* C7: whenever no additional file yields an entry whose identifier is not *)
(* already known (items_extra is empty after all files; so when the only   *)
(* additional file is the main feed itself), the run ends with no changes: *)
(* nothing is staged, written or committed, the destination is unchanged   *)
(* and the exit code is 0, also when max_entries > 0 and the main feed has *)
(* more than max_entries entries.                                          *)
(***************************************************************************)
C7_NoChanges ==
  opt_input.status = "ok" =>
    /\ (pc = "files" /\ fileIdx = Len(opt_files))
         => (items_extra = <<>> <=> ~HasNewEntry)
    /\ \/ /\ pc \in {"start", "files", "scan", "done"}
          /\ temp = NoFile
          /\ dest = OldFile
          /\ pc = "done" => exitCode = 0 /\ fatal = "none"
       \/ HasNewEntry

\* the main feed merged with itself, longer than max_entries
C7_Witness ==
  /\ pc = "done"
  /\ Len(opt_files) = 1
  /\ opt_files[1].status = "ok"
  /\ opt_files[1].guids = opt_input.guids
  /\ opt_max_entries > 0
  /\ Len(opt_input.guids) > opt_max_entries
  /\ exitCode = 0
  /\ dest = OldFile

(***************************************************************************)
(* C8: the channel metadata of a written output is that of the feed loaded *)
(* last: the last additional file, in the order given, that opened and     *)
(* parsed, whether or not it contributed an entry; the main feed's only if *)
(* no additional file loaded.  A file that fails never changes it.         *)
(***************************************************************************)
C8_Metadata ==
  /\ (pc # "start" /\ fatal \notin {"open", "parse"})
       => channel.meta = LastLoaded(fileIdx)
  /\ Merged => fileIdx = Len(opt_files)
  /\ Written => /\ dest.doc.meta = LastLoaded(Len(opt_files))
                /\ dest.doc.meta = opt_input.meta => GoodFiles = <<>>

\* the output carries the metadata of the second file, which gave no entry
C8_Witness ==
  /\ Written
  /\ Len(opt_files) = 2
  /\ opt_files[1].status = "ok"
  /\ opt_files[2].status = "ok"
  /\ dest.doc.meta = opt_files[2].meta
  /\ \A e \in Range(dest.doc.items) : e.src # 2

(***************************************************************************)
(* C10: the scan of the additional files.  An entry with an identifier is  *)
(* appended to items_extra exactly when its identifier is not in           *)
(* known_guids at that moment, and the identifier is then added.  After    *)
(* every step known_guids has only grown and holds the identifiers of the  *)
(* main entries and of the entries of items_extra; items_extra holds no    *)
(* entry without identifier, no two entries with one identifier and no     *)
(* entry with the identifier of a main entry.  The scan of a file visits   *)
(* each of its entries once, in order, and ends: every step of the loop    *)
(* leaves one entry less to look at.                                       *)
(***************************************************************************)
C10_Inv ==
  pc \in {"files", "scan"} =>
    /\ known_guids = GuidSet(PrimaryEntries) \cup GuidSet(items_extra)
    /\ \A e \in Range(items_extra) :
         e.guid # NoGuid /\ e.guid \notin GuidSet(PrimaryEntries)
    /\ \A a, b \in 1..Len(items_extra) :
         a # b => items_extra[a].guid # items_extra[b].guid
    /\ pc = "scan" =>
         /\ i \in 0..Len(vec_items)
         /\ visited \o SubSeq(vec_items, i + 1, Len(vec_items))
              = ChannelOf(opt_files[fileIdx]).items
    /\ (pc = "files" /\ fileIdx > 0 /\ opt_files[fileIdx].status = "ok")
         => visited = ChannelOf(opt_files[fileIdx]).items

C10_Step ==
  /\ known_guids \subseteq known_guids'
  /\ (pc = "scan" /\ i # Len(vec_items)) =>
       LET e == vec_items[i + 1] IN
         /\ IF e.guid # NoGuid /\ e.guid \notin known_guids
              THEN /\ items_extra' = Append(items_extra, e)
                   /\ known_guids' = known_guids \cup {e.guid}
              ELSE /\ items_extra' = items_extra
                   /\ known_guids' = known_guids
         /\ pc' = "scan"
         /\ Len(vec_items') - i' = Len(vec_items) - i - 1
  /\ (pc = "scan" /\ i = Len(vec_items)) => pc' = "files"

C10_ScanInvariant == []C10_Inv /\ [][C10_Step]_vars

\* two files scanned, each gave a new entry, and a known entry was skipped
C10_Witness ==
  /\ pc = "files"
  /\ fileIdx = 2
  /\ Len(opt_files) = 2
  /\ Len(items_extra) = 2
  /\ items_extra[1].src # items_extra[2].src
  /\ \E e \in Range(AllItems(GoodFiles)) :
       e.guid # NoGuid /\ e \notin Range(items_extra)

====
